---- MODULE Spec2Model ----
(***************************************************************************)
(* Due-date scheduling core of rslib/src/scheduler/reviews.rs:             *)
(*   - parse_due_date_str          (the due-date specifier parser)         *)
(*   - Card::set_due_date / Card::schedule_as_review                       *)
(*   - Collection::set_due_date    (the transactional batch reschedule)    *)
(*   - Collection::grade_now       (the immediate-grading loop)            *)
(* and the error-to-status mapping of the HTTP adapters in                 *)
(* rslib/src/sync/http_server/{error.rs, rest.rs}.                         *)
(*                                                                         *)
(* Strings are sequences of one-character strings.  An Option<T> is a      *)
(* sequence of length 0 (None) or 1 (Some).  A Result<T> is a record       *)
(* [ok, val, err] where val and err are Options.                            *)
(*                                                                         *)
(* TLC's integers are 32-bit signed, so values at or above 2^31 are never  *)
(* computed: u32 overflow in the parser is decided on the digit string,    *)
(* and the scheduling arithmetic is exercised on day numbers far below     *)
(* 2^31, where `(today + days_from_today) as i32` is the plain sum.        *)
(***************************************************************************)
EXTENDS Integers, Sequences, FiniteSets, TLC

VARIABLES
    \* ---- parser specification (SpecParse)
    input,          \* the &str handed to parse_due_date_str
    parsed,         \* Option<Result<DueDateSpecifier>>: what the call returned
    \* ---- single-card specifications (SpecCard, SpecFsrs)
    card,           \* the Card being rescheduled
    prev,           \* Option<[card, today, next_day_start, days, ease, force_reset]>:
                    \*   the card before the latest Card::set_due_date and its arguments
    nresched,       \* number of reschedules applied to `card` so far
    \* ---- collection specifications (Spec, SpecGrade)
    col,            \* the Collection's store: cards, revlog, config, undo, decks, deck_config
    clock,          \* what timing_today() reads: [today, next_day_start]
    result,         \* Option<outcome of the latest set_due_date or grade_now>
    call,           \* Option<the latest call: its arguments, random draws and the store before it>
    load,           \* the calls made so far plus the card ids they requested
    \* ---- HTTP adapter specification (SpecHttp)
    failure,        \* the error value an adapter is converting:
                    \*   [adapter, variant, kind, code]
    response        \* Option<the Response built from it: [status, body]>

parseVars == <<input, parsed>>
cardVars == <<card, prev, nresched>>
colVars == <<col, clock, result, call, load>>
httpVars == <<failure, response>>
vars == <<input, parsed, card, prev, nresched, col, clock, result, call, load,
          failure, response>>

None == <<>>
Some(x) == <<x>>
IsSome(o) == Len(o) = 1
Unwrap(o) == o[1]

Ok(v) == [ok |-> TRUE, val |-> Some(v), err |-> None]
Err(e) == [ok |-> FALSE, val |-> None, err |-> Some(e)]

Max(a, b) == IF a >= b THEN a ELSE b
Min(a, b) == IF a <= b THEN a ELSE b

(***************************************************************************)
(* Errors (error/mod.rs).  Only the kinds this core raises are modelled.   *)
(***************************************************************************)
\* `.or_invalid(message)` on a None: AnkiError::InvalidInput carrying the
\* message as its context.
InvalidInput(message) == [kind |-> "InvalidInput", type_name |-> "", context |-> message]

\* AnkiError::NotFound { source: NotFoundError { type_name, identifier, .. } }
NotFound(type_name, identifier) ==
    [kind |-> "NotFound", type_name |-> type_name, context |-> identifier]

\* `?` on a std ParseIntError: converted into the AnkiError::ParseNumError variant.
ParseNumError == [kind |-> "ParseNumError", type_name |-> "", context |-> <<>>]

\* AnkiError::context(): the source's context for InvalidInput and NotFound,
\* the empty string for every other kind.
ErrorContext(e) ==
    IF e.kind \in {"InvalidInput", "NotFound"} THEN e.context ELSE <<>>

(***************************************************************************)
(* parse_due_date_str                                                      *)
(***************************************************************************)
AsciiDigits == <<"0", "1", "2", "3", "4", "5", "6", "7", "8", "9">>
IsAsciiDigit(c) == \E i \in 1..10 : AsciiDigits[i] = c
DigitVal(c) == (CHOOSE i \in 1..10 : AsciiDigits[i] = c) - 1

\* "U" stands for a decimal digit outside ASCII (such as U+0665): the regex
\* crate's \d is Unicode-aware and matches it, u32::from_str rejects it.
IsRegexDigit(c) == IsAsciiDigit(c) \/ c = "U"

AllRegexDigits(s) == Len(s) >= 1 /\ \A i \in 1..Len(s) : IsRegexDigit(s[i])

\* RE.captures(s): ^(?P<min>\d+)(?:-(?P<max>\d+))?(?P<bang>!)?$
\* None when the text does not match, else the three capture groups.
RECaptures(s) ==
    LET n == Len(s)
        bang == n >= 1 /\ s[n] = "!"
        body == IF bang THEN SubSeq(s, 1, n - 1) ELSE s
        hyphens == {i \in 1..Len(body) : body[i] = "-"}
    IN  IF hyphens = {}
        THEN IF AllRegexDigits(body)
             THEN Some([min |-> body, max |-> None, bang |-> bang])
             ELSE None
        ELSE IF Cardinality(hyphens) = 1
        THEN LET k == CHOOSE i \in hyphens : TRUE
                 lo == SubSeq(body, 1, k - 1)
                 hi == SubSeq(body, k + 1, Len(body))
             IN  IF AllRegexDigits(lo) /\ AllRegexDigits(hi)
                 THEN Some([min |-> lo, max |-> Some(hi), bang |-> bang])
                 ELSE None
        ELSE None

RECURSIVE StripZeros(_)
StripZeros(ds) ==
    IF Len(ds) >= 1 /\ ds[1] = "0" THEN StripZeros(Tail(ds)) ELSE ds

\* u32::MAX = 4294967295, as a digit string
U32MaxDigits == <<"4", "2", "9", "4", "9", "6", "7", "2", "9", "5">>

RECURSIVE DigitsGreater(_, _)
\* lexicographic > of two digit strings of equal length
DigitsGreater(a, b) ==
    IF Len(a) = 0 THEN FALSE
    ELSE IF DigitVal(a[1]) # DigitVal(b[1]) THEN DigitVal(a[1]) > DigitVal(b[1])
    ELSE DigitsGreater(Tail(a), Tail(b))

\* the number is above u32::MAX (ds: ASCII digits only)
OverflowsU32(ds) ==
    LET t == StripZeros(ds)
    IN  \/ Len(t) > Len(U32MaxDigits)
        \/ Len(t) = Len(U32MaxDigits) /\ DigitsGreater(t, U32MaxDigits)

RECURSIVE DigitsValue(_, _)
DigitsValue(ds, acc) ==
    IF Len(ds) = 0 THEN acc
    ELSE DigitsValue(Tail(ds), acc * 10 + DigitVal(ds[1]))

\* <str>.parse::<u32>() on a capture group followed by `?`.
ParseU32(ds) ==
    IF \E i \in 1..Len(ds) : ~IsAsciiDigit(ds[i]) THEN Err(ParseNumError)
    ELSE IF OverflowsU32(ds) THEN Err(ParseNumError)
    ELSE Ok(DigitsValue(ds, 0))

\* mutant: the reversed range is returned as written.
parse_due_date_str_unordered(s) ==
    LET caps == RECaptures(s)
    IN  IF ~IsSome(caps) THEN Err(InvalidInput(s))
        ELSE LET c == Unwrap(caps)
                 min == ParseU32(c.min)
             IN  IF ~min.ok THEN min
                 ELSE LET max == IF IsSome(c.max) THEN ParseU32(Unwrap(c.max)) ELSE min
                      IN  IF ~max.ok THEN max
                          ELSE Ok([min |-> Unwrap(min.val),
                                   max |-> Unwrap(max.val),
                                   force_reset |-> c.bang])

\* mutant: the input is not attached to the error.
parse_due_date_str_nocontext(s) ==
    LET caps == RECaptures(s)
    IN  IF ~IsSome(caps) THEN Err(InvalidInput(<<>>))
        ELSE LET c == Unwrap(caps)
                 min == ParseU32(c.min)
             IN  IF ~min.ok THEN min
                 ELSE LET max == IF IsSome(c.max) THEN ParseU32(Unwrap(c.max)) ELSE min
                      IN  IF ~max.ok THEN max
                          ELSE Ok([min |-> Min(Unwrap(min.val), Unwrap(max.val)),
                                   max |-> Max(Unwrap(max.val), Unwrap(min.val)),
                                   force_reset |-> c.bang])

parse_due_date_str(s) ==
    LET caps == RECaptures(s)
    IN  IF ~IsSome(caps) THEN Err(InvalidInput(s))
        ELSE LET c == Unwrap(caps)
                 min == ParseU32(c.min)
             IN  IF ~min.ok THEN min
                 ELSE LET max == IF IsSome(c.max) THEN ParseU32(Unwrap(c.max)) ELSE min
                      IN  IF ~max.ok THEN max
                          ELSE Ok([min |-> Min(Unwrap(min.val), Unwrap(max.val)),
                                   max |-> Max(Unwrap(max.val), Unwrap(min.val)),
                                   force_reset |-> c.bang])

(***************************************************************************)
(* Inputs of the parser specification.                                     *)
(***************************************************************************)
MaxLen == 3

Alphabet == {"0", "5", "7", "-", "!", "x", "U"}

RECURSIVE StringsUpTo(_)
StringsUpTo(n) ==
    IF n = 0 THEN {<<>>}
    ELSE LET shorter == StringsUpTo(n - 1)
         IN  shorter \cup {Append(s, c) : s \in {t \in shorter : Len(t) = n - 1}, c \in Alphabet}

\* the strings of test::parse, and numbers around the u32 range
LongInputs ==
    { <<"5", "0", "-", "7", "0">>,
      <<"7", "0", "-", "5", "0", "!">>,
      <<"0", "0", "7", "-", "5", "!">>,
      <<"4", "2", "9", "4", "9", "6", "7", "2", "9", "6">>,
      <<"9", "9", "9", "9", "9", "9", "9", "9", "9", "9", "9">>,
      <<"5", "-", "4", "2", "9", "4", "9", "6", "7", "2", "9", "6", "!">>,
      <<"0", "0", "0", "0", "0", "0", "0", "0", "0", "0", "1", "2">> }

Inputs == StringsUpTo(MaxLen) \cup LongInputs

(***************************************************************************)
(* Card (the fields the scheduling core reads or writes).                  *)
(*   ctype  : "New" | "Learn" | "Review" | "Relearn"                       *)
(*   queue  : "New" | "Learn" | "Review" | "Suspended"                     *)
(*   deck_id, original_deck_id : DeckId, 0 = unset                         *)
(*   memory_state : whether the Option<FsrsMemoryState> is Some            *)
(*   last_review_time : Option<TimestampSecs>                              *)
(*   original_position : Option<u32>                                       *)
(***************************************************************************)

\* Card::original_or_current_due(): the backed-up due while the card is
\* parked in a filtered deck, else its due.
original_or_current_due(c) ==
    IF c.original_deck_id # 0 THEN c.original_due ELSE c.due

\* Card::last_position(): a new card's position is its (original) due;
\* any other card keeps the position recorded earlier.
last_position(c) ==
    IF c.ctype = "New" THEN Some(original_or_current_due(c)) ELSE c.original_position

\* Card::remove_from_filtered_deck_before_reschedule(): a parked card goes
\* back to its home deck and its due is restored; both filtered-deck fields
\* are cleared.  A card that is not parked is left alone.
remove_from_filtered_deck_before_reschedule(c) ==
    IF c.original_deck_id # 0
    THEN [c EXCEPT !.deck_id = c.original_deck_id,
                   !.due = c.original_due,
                   !.original_deck_id = 0,
                   !.original_due = 0]
    ELSE c

\* is_unix_epoch_timestamp(due): the magnitude heuristic for a due value
\* that is a raw timestamp instead of a day number.
is_unix_epoch_timestamp(due) == due > 1000000000

SecsPerDay == 86400

\* TimestampSecs(a).elapsed_days_since(TimestampSecs(b))
elapsed_days_since(a, b) == Max(a - b, 0) \div SecsPerDay

\* Rust's integer `/`: the quotient is truncated toward zero (b > 0)
TruncDiv(a, b) == IF a >= 0 THEN a \div b ELSE -((-a) \div b)

\* u32::saturating_add_signed, on the values below 2^31 used here
saturating_add_signed(u, i) == Max(0, u + i)

\* An f32 ease is carried in units of 1/10000 (1.8 is 18000).
\* (ease_factor * 1000.0).round() as u16: round half away from zero, and the
\* float-to-int cast saturates at 0 and u16::MAX.
U16Max == 65535
EaseToU16(ease) ==
    IF ease <= 0 THEN 0 ELSE Min(U16Max, (ease + 5) \div 10)

\* mutant: the ease factor is written whether or not one is set.
schedule_as_review_overwrite(c, interval, due, ease_factor) ==
    LET c1 == [c EXCEPT !.original_position = last_position(c)]
        c2 == remove_from_filtered_deck_before_reschedule(c1)
    IN  [c2 EXCEPT !.interval = interval,
                   !.due = due,
                   !.ctype = "Review",
                   !.queue = "Review",
                   !.ease_factor = ease_factor]

\* mutant: the card is taken out of the filtered deck after interval and due
\* were written.
schedule_as_review_remove_last(c, interval, due, ease_factor) ==
    LET c1 == [c EXCEPT !.original_position = last_position(c)]
        c2 == [c1 EXCEPT !.interval = interval,
                         !.due = due,
                         !.ctype = "Review",
                         !.queue = "Review",
                         !.ease_factor = IF c1.ease_factor = 0 THEN ease_factor ELSE @]
    IN  remove_from_filtered_deck_before_reschedule(c2)

\* mutant: the queue is left as it was.
schedule_as_review_keep_queue(c, interval, due, ease_factor) ==
    LET c1 == [c EXCEPT !.original_position = last_position(c)]
        c2 == remove_from_filtered_deck_before_reschedule(c1)
    IN  [c2 EXCEPT !.interval = interval,
                   !.due = due,
                   !.ctype = "Review",
                   !.ease_factor = IF c2.ease_factor = 0 THEN ease_factor ELSE @]

\* Card::schedule_as_review
schedule_as_review(c, interval, due, ease_factor) ==
    LET c1 == [c EXCEPT !.original_position = last_position(c)]
        c2 == remove_from_filtered_deck_before_reschedule(c1)
    IN  [c2 EXCEPT !.interval = interval,
                   !.due = due,
                   !.ctype = "Review",
                   !.queue = "Review",
                   !.ease_factor = IF c2.ease_factor = 0 THEN ease_factor ELSE @]

\* mutant: a due that is a raw timestamp is used as if it were a day number.
NewInterval_epoch_due_as_days(c, today, next_day_start, days_from_today, force_reset) ==
    LET new_due == today + days_from_today
    IN  IF c.memory_state
        THEN IF IsSome(c.last_review_time)
             THEN elapsed_days_since(next_day_start, Unwrap(c.last_review_time))
                      + days_from_today
             ELSE LET due == original_or_current_due(c)
                      due_diff ==
                          IF FALSE
                          THEN LET offset == TruncDiv(due - next_day_start, SecsPerDay)
                               IN  new_due - (today + offset)
                          ELSE new_due - due
                  IN  saturating_add_signed(c.interval, due_diff)
        ELSE IF force_reset \/ c.ctype \notin {"Review", "Relearn"}
             THEN Max(days_from_today, 1)
             ELSE Max(c.interval, 1)

\* mutant: force_reset is looked at before the memory state.
NewInterval_force_reset_first(c, today, next_day_start, days_from_today, force_reset) ==
    LET new_due == today + days_from_today
    IN  IF c.memory_state /\ ~force_reset
        THEN IF IsSome(c.last_review_time)
             THEN elapsed_days_since(next_day_start, Unwrap(c.last_review_time))
                      + days_from_today
             ELSE LET due == original_or_current_due(c)
                      due_diff ==
                          IF is_unix_epoch_timestamp(due)
                          THEN LET offset == TruncDiv(due - next_day_start, SecsPerDay)
                               IN  new_due - (today + offset)
                          ELSE new_due - due
                  IN  saturating_add_signed(c.interval, due_diff)
        ELSE IF force_reset \/ c.ctype \notin {"Review", "Relearn"}
             THEN Max(days_from_today, 1)
             ELSE Max(c.interval, 1)

\* the interval Card::set_due_date computes (new_interval)
NewInterval(c, today, next_day_start, days_from_today, force_reset) ==
    LET new_due == today + days_from_today
    IN  IF c.memory_state
        THEN IF IsSome(c.last_review_time)
             THEN elapsed_days_since(next_day_start, Unwrap(c.last_review_time))
                      + days_from_today
             ELSE LET due == original_or_current_due(c)
                      due_diff ==
                          IF is_unix_epoch_timestamp(due)
                          THEN LET offset == TruncDiv(due - next_day_start, SecsPerDay)
                               IN  new_due - (today + offset)
                          ELSE new_due - due
                  IN  saturating_add_signed(c.interval, due_diff)
        ELSE IF force_reset \/ c.ctype \notin {"Review", "Relearn"}
             THEN Max(days_from_today, 1)
             ELSE Max(c.interval, 1)

\* mutant: force_reset is not looked at.
CardSetDueDate_noforce(c, today, next_day_start, days_from_today, ease_factor, force_reset) ==
    schedule_as_review(c,
                       NewInterval(c, today, next_day_start, days_from_today, FALSE),
                       today + days_from_today,
                       EaseToU16(ease_factor))

\* mutant: a review card's interval is reset like any other card's.
CardSetDueDate_reset(c, today, next_day_start, days_from_today, ease_factor, force_reset) ==
    schedule_as_review(c,
                       NewInterval(c, today, next_day_start, days_from_today, TRUE),
                       today + days_from_today,
                       EaseToU16(ease_factor))

\* Card::set_due_date
CardSetDueDate(c, today, next_day_start, days_from_today, ease_factor, force_reset) ==
    schedule_as_review(c,
                       NewInterval(c, today, next_day_start, days_from_today, force_reset),
                       today + days_from_today,
                       EaseToU16(ease_factor))

(***************************************************************************)
(* Card::new(NoteId(0), 0, DeckId(0), 0) as test::due_date builds it, in   *)
(* deck `did`.                                                             *)
(***************************************************************************)
NewCard(cid, did) ==
    [id |-> cid, deck_id |-> did, original_deck_id |-> 0,
     ctype |-> "New", queue |-> "New",
     due |-> 0, original_due |-> 0, interval |-> 0, ease_factor |-> 0,
     memory_state |-> FALSE, last_review_time |-> None,
     original_position |-> None]

CTypes == {"New", "Learn", "Review", "Relearn"}

(***************************************************************************)
(* The Collection.                                                         *)
(*   col.cards       : CardIds -> Option<Card>                             *)
(*   col.revlog      : sequence of manual-reschedule entries               *)
(*   col.config      : Option<String>, the value under the StringKey       *)
(*   col.undo        : sequence of undo steps [op, changes]                *)
(*   col.decks       : DeckIds -> Option<[filtered, config_id]>            *)
(*   col.deck_config : ConfigIds -> Option<[initial_ease]>                 *)
(***************************************************************************)
CardIds == {1, 2, 3}
DeckIds == {1, 2, 3, 4, 5}
ConfigIds == {1, 2, 3}

\* a thread panic (Option::unwrap on None): set_due_date returns nothing
Panicked == [kind |-> "Panic", type_name |-> "", context |-> <<>>]

RECURSIVE IdToString(_)
\* <i64 as Display>::to_string for n >= 0
IdToString(n) ==
    IF n < 10 THEN <<AsciiDigits[n + 1]>>
    ELSE Append(IdToString(n \div 10), AsciiDigits[(n % 10) + 1])

\* DeckId::or: the first id unless it is 0
DeckIdOr(a, b) == IF a # 0 THEN a ELSE b

\* `.or_not_found(deck_id)` on a None deck
DeckNotFound(deck_id) == NotFound("deck", IdToString(deck_id))

\* Collection::get_deck
get_deck(c, deck_id) == c.decks[deck_id]

\* Deck::config_id(): a filtered deck has none
config_id(deck) == IF deck.filtered THEN None ELSE Some(deck.config_id)

\* DeckConfig::default()
DefaultDeckConfig == [initial_ease |-> 25000]

\* Collection::get_deck_config(dcid, fallback): the stored configuration;
\* with fallback set, "guaranteed to return a value" (reviews.rs:166), taken
\* here to be the default configuration.
get_deck_config(c, dcid, fallback) ==
    IF IsSome(c.deck_config[dcid]) THEN c.deck_config[dcid]
    ELSE IF fallback THEN Some(DefaultDeckConfig)
    ELSE None

\* Option<DeckConfig>::unwrap_or_default
unwrap_or_default(o) == IF IsSome(o) THEN Unwrap(o) ELSE DefaultDeckConfig

\* Collection::all_cards_for_ids(cids, false): the found subset of the
\* requested ids, each card once; `fetched` is one order of it.
FoundIds(c, cids) == {cids[i] : i \in 1..Len(cids)} \cap {id \in CardIds : IsSome(c.cards[id])}

\* Collection::log_manually_scheduled_review(&card, original.interval, usn)
log_manually_scheduled_review(c, updated, last_interval) ==
    [c EXCEPT !.revlog = Append(@, [cid |-> updated.id,
                                      interval |-> updated.interval,
                                      last_interval |-> last_interval,
                                      kind |-> "Manual"])]

\* Collection::update_card_inner(&mut card, original, usn): the pre-image is
\* recorded for undo, then the card is written.
update_card_inner(c, updated, original) ==
    [c EXCEPT !.changes = Append(@, original),
              !.cards[updated.id] = Some(updated)]

\* Collection::set_config_string_inner(key, days)
set_config_string_inner(c, days) == [c EXCEPT !.config = Some(days)]

\* mutant: the smallest absent id is reported.
MissingCid_smallest(cids, found) ==
    LET absent == {cids[i] : i \in 1..Len(cids)} \ found
    IN  IF absent = {} THEN None
        ELSE Some(CHOOSE id \in absent : \A other \in absent : id <= other)

\* cids.iter().find(|cid| !found_cids.contains(cid))
MissingCid(cids, found) ==
    LET absent == {i \in 1..Len(cids) : cids[i] \notin found}
    IN  IF absent = {} THEN None
        ELSE Some(cids[CHOOSE i \in absent : \A j \in absent : i <= j])

\* mutant: a deck that does not exist is given the default configuration.
InitialEase_default_for_missing_deck(c, deck_id) ==
    LET deck == get_deck(c, deck_id)
    IN  IF ~IsSome(deck) THEN Ok(DefaultDeckConfig.initial_ease)
        ELSE LET cfg == config_id(Unwrap(deck))
             IN  IF ~IsSome(cfg) THEN Err(InvalidInput("home deck is filtered"))
                 ELSE Ok(unwrap_or_default(get_deck_config(c, Unwrap(cfg), TRUE)).initial_ease)

\* the None arm of the cache lookup (reviews.rs:161-172)
InitialEase(c, deck_id) ==
    LET deck == get_deck(c, deck_id)
    IN  IF ~IsSome(deck) THEN Err(DeckNotFound(deck_id))
        ELSE LET cfg == config_id(Unwrap(deck))
             IN  IF ~IsSome(cfg) THEN Err(InvalidInput("home deck is filtered"))
                 ELSE Ok(unwrap_or_default(get_deck_config(c, Unwrap(cfg), TRUE)).initial_ease)

\* the clock as timing_today() reads it at a point of the call, when the day
\* rolls over after point `rollover` (0: it does not roll over).  Point 1 is
\* the read of days_elapsed (reviews.rs:137), point 2 the read of
\* next_day_at (reviews.rs:138), point 2 + i the iteration of the i-th card.
RolledOver(clk) ==
    [today |-> clk.today + 1, next_day_start |-> clk.next_day_start + SecsPerDay]

ClockAt(clk, rollover, point) ==
    IF rollover # 0 /\ point > rollover THEN RolledOver(clk) ELSE clk

\* mutant: the clone kept for undo is taken after the card was changed.
CardStep_clone_after_change(acc, original, days_from_today, env) ==
    LET deck_id == DeckIdOr(original.original_deck_id, original.deck_id)
        hit == deck_id \in DOMAIN acc.cache
        looked == IF hit THEN Ok(acc.cache[deck_id]) ELSE InitialEase(acc.col, deck_id)
        asked == IF hit THEN acc.lookups ELSE Append(acc.lookups, deck_id)
    IN  IF ~looked.ok
        THEN [acc EXCEPT !.ok = FALSE, !.err = looked.err, !.lookups = asked]
        ELSE LET ease == Unwrap(looked.val)
                 updated == CardSetDueDate(original, env.today, env.next_day_start,
                                           days_from_today, ease, env.force_reset)
             IN  [acc EXCEPT
                    !.cache = IF hit THEN @ ELSE @ @@ (deck_id :> ease),
                    !.lookups = asked,
                    !.seen = Append(@, [cid |-> original.id, deck_id |-> deck_id,
                                        today |-> env.today,
                                        next_day_start |-> env.next_day_start,
                                        days_from_today |-> days_from_today,
                                        ease_factor |-> ease]),
                    !.col = update_card_inner(
                                log_manually_scheduled_review(@, updated, original.interval),
                                updated, updated)]

\* mutant: timing_today() is read again for every card.
CardStep_reads_clock(acc, original, days_from_today, env) ==
    LET deck_id == DeckIdOr(original.original_deck_id, original.deck_id)
        hit == deck_id \in DOMAIN acc.cache
        looked == IF hit THEN Ok(acc.cache[deck_id]) ELSE InitialEase(acc.col, deck_id)
        asked == IF hit THEN acc.lookups ELSE Append(acc.lookups, deck_id)
    IN  IF ~looked.ok
        THEN [acc EXCEPT !.ok = FALSE, !.err = looked.err, !.lookups = asked]
        ELSE LET ease == Unwrap(looked.val)
                 updated == CardSetDueDate(original, ClockAt(env.clk, env.rollover, 3 + Len(acc.seen)).today, ClockAt(env.clk, env.rollover, 3 + Len(acc.seen)).next_day_start,
                                           days_from_today, ease, env.force_reset)
             IN  [acc EXCEPT
                    !.cache = IF hit THEN @ ELSE @ @@ (deck_id :> ease),
                    !.lookups = asked,
                    !.seen = Append(@, [cid |-> original.id, deck_id |-> deck_id,
                                        today |-> ClockAt(env.clk, env.rollover, 3 + Len(acc.seen)).today,
                                        next_day_start |-> ClockAt(env.clk, env.rollover, 3 + Len(acc.seen)).next_day_start,
                                        days_from_today |-> days_from_today,
                                        ease_factor |-> ease]),
                    !.col = update_card_inner(
                                log_manually_scheduled_review(@, updated, original.interval),
                                updated, original)]

\* mutant: decks_initial_ease is neither read nor filled.
CardStep_no_cache(acc, original, days_from_today, env) ==
    LET deck_id == DeckIdOr(original.original_deck_id, original.deck_id)
        hit == FALSE
        looked == IF hit THEN Ok(acc.cache[deck_id]) ELSE InitialEase(acc.col, deck_id)
        asked == IF hit THEN acc.lookups ELSE Append(acc.lookups, deck_id)
    IN  IF ~looked.ok
        THEN [acc EXCEPT !.ok = FALSE, !.err = looked.err, !.lookups = asked]
        ELSE LET ease == Unwrap(looked.val)
                 updated == CardSetDueDate(original, env.today, env.next_day_start,
                                           days_from_today, ease, env.force_reset)
             IN  [acc EXCEPT
                    !.cache = @,
                    !.lookups = asked,
                    !.seen = Append(@, [cid |-> original.id, deck_id |-> deck_id,
                                        today |-> env.today,
                                        next_day_start |-> env.next_day_start,
                                        days_from_today |-> days_from_today,
                                        ease_factor |-> ease]),
                    !.col = update_card_inner(
                                log_manually_scheduled_review(@, updated, original.interval),
                                updated, original)]

\* one iteration of `for mut card in cards` (reviews.rs:157-185) on the
\* card `original` with the drawn offset days_from_today.
\* acc: [ok, err, col, cache, lookups, seen], the body so far (cache:
\* decks_initial_ease; lookups: the deck ids handed to get_deck, in order;
\* seen: the arguments of each card.set_due_date call, in order);
\* env: [today, next_day_start, force_reset, samples, clk, rollover].
CardStep(acc, original, days_from_today, env) ==
    LET deck_id == DeckIdOr(original.original_deck_id, original.deck_id)
        hit == deck_id \in DOMAIN acc.cache
        looked == IF hit THEN Ok(acc.cache[deck_id]) ELSE InitialEase(acc.col, deck_id)
        asked == IF hit THEN acc.lookups ELSE Append(acc.lookups, deck_id)
    IN  IF ~looked.ok
        THEN [acc EXCEPT !.ok = FALSE, !.err = looked.err, !.lookups = asked]
        ELSE LET ease == Unwrap(looked.val)
                 updated == CardSetDueDate(original, env.today, env.next_day_start,
                                           days_from_today, ease, env.force_reset)
             IN  [acc EXCEPT
                    !.cache = IF hit THEN @ ELSE @ @@ (deck_id :> ease),
                    !.lookups = asked,
                    !.seen = Append(@, [cid |-> original.id, deck_id |-> deck_id,
                                        today |-> env.today,
                                        next_day_start |-> env.next_day_start,
                                        days_from_today |-> days_from_today,
                                        ease_factor |-> ease]),
                    !.col = update_card_inner(
                                log_manually_scheduled_review(@, updated, original.interval),
                                updated, original)]

\* mutant: one offset is drawn for the whole batch.
RECURSIVE CardLoop_one_sample(_, _, _, _)
CardLoop_one_sample(acc, fetched, i, env) ==
    IF i > Len(fetched) \/ ~acc.ok THEN acc
    ELSE CHOOSE r \in {CardLoop_one_sample(next, fetched, i + 1, env) :
                          next \in {CardStep(acc, fetched[i], env.samples[1], env)}} : TRUE

\* the loop from the card at index i on; the first error ends it (`?`).
\* (CHOOSE over a one-element set: each iteration is evaluated once.)
RECURSIVE CardLoop(_, _, _, _)
CardLoop(acc, fetched, i, env) ==
    IF i > Len(fetched) \/ ~acc.ok THEN acc
    ELSE CHOOSE r \in {CardLoop(next, fetched, i + 1, env) :
                          next \in {CardStep(acc, fetched[i], env.samples[i], env)}} : TRUE

\* the closure handed to transact (reviews.rs:142-190); the result carries
\* the store as the body left it.
SetDueDateBody(c, cids, days, context, fetched, env) ==
    IF Len(fetched) # Len(cids)
    THEN LET missing_cid == MissingCid(cids, {fetched[i].id : i \in 1..Len(fetched)})
         IN  IF ~IsSome(missing_cid)
             THEN [ok |-> FALSE, err |-> Some(Panicked), col |-> c, cache |-> <<>>,
                   lookups |-> <<>>, seen |-> <<>>]
             ELSE [ok |-> FALSE,
                   err |-> Some(NotFound("card", IdToString(Unwrap(missing_cid)))),
                   col |-> c, cache |-> <<>>, lookups |-> <<>>, seen |-> <<>>]
    ELSE CHOOSE r \in
           { IF looped.ok /\ IsSome(context)
             THEN [looped EXCEPT !.col = set_config_string_inner(@, days)]
             ELSE looped :
               looped \in {CardLoop([ok |-> TRUE, err |-> None, col |-> c, cache |-> <<>>,
                                     lookups |-> <<>>, seen |-> <<>>],
                                    fetched, 1, env)} } : TRUE

\* OpOutput { output: (), changes }
OpOutput(op, c) ==
    [output |-> "()",
     changes |-> [op |-> op, card |-> Len(c.changes) > 0]]

\* OpOutput { output: (), changes: Default::default() }
EmptyOpOutput ==
    [output |-> "()", changes |-> [op |-> None, card |-> FALSE]]

\* Collection::transact(op, body): when the body returns Ok its writes are
\* committed as one undo step labelled op; when it returns an error every
\* write of the body is rolled back.
Transact(before, op, body) ==
    IF body.ok
    THEN [col |-> [body.col EXCEPT
                       !.undo = Append(@, [op |-> op, changes |-> body.col.changes]),
                       !.changes = <<>>],
          result |-> Ok(OpOutput(Some(op), body.col)),
          lookups |-> body.lookups, seen |-> body.seen]
    ELSE [col |-> before, result |-> [ok |-> FALSE, val |-> None, err |-> body.err],
          lookups |-> body.lookups, seen |-> body.seen]

\* Collection::undo(): the latest undo step is taken off the stack and the
\* pre-images it recorded are written back, the latest change first.
RECURSIVE RestoreCards(_, _, _)
RestoreCards(cards, changes, i) ==
    IF i = 0 THEN cards
    ELSE RestoreCards([cards EXCEPT ![changes[i].id] = Some(changes[i])], changes, i - 1)

UndoStep(c) ==
    LET step == c.undo[Len(c.undo)]
    IN  [c EXCEPT !.cards = RestoreCards(@, step.changes, Len(step.changes)),
                  !.undo = SubSeq(@, 1, Len(@) - 1)]

\* the first lines of the function up to the start of the transaction
\* (reviews.rs:136-141)
SetDueDateEnv(clk, rollover, spec, samples) ==
    [today |-> ClockAt(clk, rollover, 1).today,
     next_day_start |-> ClockAt(clk, rollover, 2).next_day_start,
     force_reset |-> spec.force_reset,
     samples |-> samples, clk |-> clk, rollover |-> rollover]

\* what a call that does not reach the transaction leaves behind
NoBody(c, res) == [col |-> c, result |-> res, lookups |-> <<>>, seen |-> <<>>]

\* mutant: the body runs on the collection outside a transaction.
CollectionSetDueDate_no_transaction(c, clk, cids, days, context, fetched, samples, rollover) ==
    LET spec == parse_due_date_str(days)
    IN  IF ~spec.ok THEN NoBody(c, spec)
        ELSE IF Len(cids) = 0 THEN NoBody(c, Ok(EmptyOpOutput))
        ELSE LET env == SetDueDateEnv(clk, rollover, Unwrap(spec.val), samples)
             IN  CHOOSE r \in
                   { [col |-> [body.col EXCEPT !.changes = <<>>],
                      result |-> IF body.ok THEN Ok(OpOutput(Some("SetDueDate"), body.col))
                                 ELSE [ok |-> FALSE, val |-> None, err |-> body.err],
                      lookups |-> body.lookups, seen |-> body.seen] :
                       body \in {SetDueDateBody(c, cids, days, context, fetched, env)} } : TRUE

\* mutant: an empty id list is not returned early.
CollectionSetDueDate_no_empty_return(c, clk, cids, days, context, fetched, samples, rollover) ==
    LET spec == parse_due_date_str(days)
    IN  IF ~spec.ok THEN NoBody(c, spec)
        ELSE LET env == SetDueDateEnv(clk, rollover, Unwrap(spec.val), samples)
             IN  CHOOSE r \in
                   { Transact(c, "SetDueDate", body) :
                       body \in {SetDueDateBody(c, cids, days, context, fetched, env)} } : TRUE

\* Collection::set_due_date.  fetched: the cards all_cards_for_ids returns;
\* samples: the offsets distribution.sample(&mut rng) draws, one per card;
\* rollover: the point of the call after which the day rolls over.
CollectionSetDueDate(c, clk, cids, days, context, fetched, samples, rollover) ==
    LET spec == parse_due_date_str(days)
    IN  IF ~spec.ok THEN NoBody(c, spec)
        ELSE IF Len(cids) = 0 THEN NoBody(c, Ok(EmptyOpOutput))
        ELSE LET env == SetDueDateEnv(clk, rollover, Unwrap(spec.val), samples)
             IN  CHOOSE r \in
                   { Transact(c, "SetDueDate", body) :
                       body \in {SetDueDateBody(c, cids, days, context, fetched, env)} } : TRUE

(***************************************************************************)
(* Collection::grade_now                                                   *)
(***************************************************************************)
\* Collection::get_scheduling_states(card_id): the current state of the card
\* and the four states an answer can lead to; NotFound for an absent card.
get_scheduling_states(c, card_id) ==
    IF ~IsSome(c.cards[card_id]) THEN Err(NotFound("card", IdToString(card_id)))
    ELSE LET cur == Unwrap(c.cards[card_id])
         IN  Ok([current |-> [ctype |-> cur.ctype, interval |-> cur.interval],
                 again |-> [ctype |-> "Relearn", interval |-> 0],
                 hard |-> [ctype |-> "Review", interval |-> Max(1, cur.interval)],
                 good |-> [ctype |-> "Review", interval |-> cur.interval + 1],
                 easy |-> [ctype |-> "Review", interval |-> cur.interval + 2]])

\* mutant: a rating that is not 0, 1 or 2 is taken as easy.
NewState_easy_by_default(states, rating) ==
    IF rating = 0 THEN Ok(states.again)
    ELSE IF rating = 1 THEN Ok(states.hard)
    ELSE IF rating = 2 THEN Ok(states.good)
    ELSE Ok(states.easy)

\* `match rating { 0 => again, 1 => hard, 2 => good, 3 => easy,
\*                 _ => invalid_input!("invalid rating") }` (reviews.rs:197-203)
NewState(states, rating) ==
    IF rating = 0 THEN Ok(states.again)
    ELSE IF rating = 1 THEN Ok(states.hard)
    ELSE IF rating = 2 THEN Ok(states.good)
    ELSE IF rating = 3 THEN Ok(states.easy)
    ELSE Err(InvalidInput("invalid rating"))

\* the CardAnswer built at reviews.rs:204-214
CardAnswer(card_id, states, new_state, rating) ==
    [card_id |-> card_id, current_state |-> states.current, new_state |-> new_state,
     rating |-> rating, milliseconds_taken |-> 0, from_queue |-> FALSE]

\* Collection::answer_card_inner(&mut answer): the card takes the new state,
\* the review is logged and the pre-image is recorded for undo.
answer_card_inner(c, answer, today) ==
    LET original == Unwrap(c.cards[answer.card_id])
        updated == [original EXCEPT
                       !.ctype = answer.new_state.ctype,
                       !.queue = IF answer.new_state.ctype = "Review" THEN "Review" ELSE "Learn",
                       !.interval = answer.new_state.interval,
                       !.due = today + answer.new_state.interval]
    IN  [c EXCEPT !.changes = Append(@, original),
                  !.cards[answer.card_id] = Some(updated),
                  !.revlog = Append(@, [cid |-> answer.card_id,
                                        interval |-> updated.interval,
                                        last_interval |-> original.interval,
                                        kind |-> "Review"])]

\* one iteration of `for &card_id in cids` (reviews.rs:195-217)
GradeStep(acc, card_id, rating, today) ==
    LET states == get_scheduling_states(acc.col, card_id)
    IN  IF ~states.ok THEN [acc EXCEPT !.ok = FALSE, !.err = states.err]
        ELSE LET new_state == NewState(Unwrap(states.val), rating)
             IN  IF ~new_state.ok THEN [acc EXCEPT !.ok = FALSE, !.err = new_state.err]
                 ELSE [acc EXCEPT
                         !.col = answer_card_inner(
                                     @, CardAnswer(card_id, Unwrap(states.val),
                                                   Unwrap(new_state.val), rating),
                                     today),
                         !.answered = Append(@, card_id)]

RECURSIVE GradeLoop(_, _, _, _, _)
GradeLoop(acc, cids, i, rating, today) ==
    IF i > Len(cids) \/ ~acc.ok THEN acc
    ELSE CHOOSE r \in {GradeLoop(next, cids, i + 1, rating, today) :
                          next \in {GradeStep(acc, cids[i], rating, today)}} : TRUE

\* Collection::grade_now(cids, rating): the loop inside transact(Op::GradeNow)
CollectionGradeNow(c, clk, cids, rating) ==
    LET body == GradeLoop([ok |-> TRUE, err |-> None, col |-> c, answered |-> <<>>,
                           lookups |-> <<>>, seen |-> <<>>],
                          cids, 1, rating, clk.today)
        done == Transact(c, "GradeNow", body)
    IN  [col |-> done.col, result |-> done.result, answered |-> body.answered]

(***************************************************************************)
(* The collection as constructed: decks 1 and 5 are normal decks with a    *)
(* stored configuration, deck 2 is a normal deck whose configuration is    *)
(* not stored, deck 3 is a filtered deck, deck 4 does not exist.           *)
(***************************************************************************)
InitDecks ==
    (1 :> Some([filtered |-> FALSE, config_id |-> 1])) @@
    (2 :> Some([filtered |-> FALSE, config_id |-> 2])) @@
    (3 :> Some([filtered |-> TRUE, config_id |-> 0])) @@
    (4 :> None) @@
    (5 :> Some([filtered |-> FALSE, config_id |-> 3]))

InitDeckConfig ==
    (1 :> Some([initial_ease |-> 18000])) @@
    (2 :> None) @@
    (3 :> Some([initial_ease |-> 22000]))

ReviewCard(cid, did) ==
    [NewCard(cid, did) EXCEPT !.ctype = "Review", !.queue = "Review", !.due = 9,
                              !.interval = 5, !.ease_factor = 2300]

\* a review card parked in the filtered deck 3, its home deck being `home`
ParkedCard(cid, home) ==
    [NewCard(cid, 3) EXCEPT !.ctype = "Review", !.queue = "Review", !.due = -10000,
                            !.original_deck_id = home, !.original_due = 7,
                            !.interval = 2]

CardChoices(cid) ==
    IF cid = 1 THEN {Some(ReviewCard(1, 1))}
    ELSE IF cid = 2
    THEN {None, Some(NewCard(2, 1)), Some(ParkedCard(2, 5)), Some(NewCard(2, 2)),
          Some(NewCard(2, 4)), Some(NewCard(2, 3))}
    ELSE {None, Some(NewCard(3, 5))}

EmptyCol(cards) ==
    [cards |-> cards, revlog |-> <<>>, config |-> None, undo |-> <<>>, changes |-> <<>>,
     decks |-> InitDecks, deck_config |-> InitDeckConfig]

FirstDay == 5
InitClock == [today |-> FirstDay, next_day_start |-> (FirstDay + 1) * SecsPerDay]

\* the adapter variables while a specification does not use them
IdleHttp ==
    /\ failure = [adapter |-> "", variant |-> "", kind |-> "", code |-> 0]
    /\ response = None

\* the collection variables while a specification does not use them
IdleCol ==
    /\ col = EmptyCol([id \in CardIds |-> None])
    /\ clock = InitClock
    /\ result = None
    /\ call = None
    /\ load = 0

(***************************************************************************)
(* SpecParse: parse_due_date_str applied to every input of Inputs.         *)
(***************************************************************************)
InitParse ==
    /\ input \in Inputs
    /\ parsed = None
    /\ card = NewCard(1, 1)
    /\ prev = None
    /\ nresched = 0
    /\ IdleCol
    /\ IdleHttp

Parse ==
    /\ parsed = None
    /\ parsed' = Some(parse_due_date_str(input))
    /\ UNCHANGED <<input, cardVars, colVars, httpVars>>

NextParse == Parse

SpecParse == InitParse /\ [][NextParse]_vars

(***************************************************************************)
(* SpecCard: Card::set_due_date applied repeatedly to one stored card.     *)
(***************************************************************************)
MaxDays == 3
MaxResched == 2

Todays == {5, 6}
NextDayStarts == {0, 2 * SecsPerDay}
\* initial-ease values 1.8 and 2.4996
Eases == {18000, 24996}

\* the stored cards a reschedule can meet
StoredCards ==
    { [NewCard(1, IF f = 0 THEN 1 ELSE 3) EXCEPT
           !.original_deck_id = f,
           !.original_due = IF f = 0 THEN 0 ELSE 7,
           !.ctype = ct, !.queue = q, !.due = d, !.interval = i,
           !.ease_factor = e, !.memory_state = m, !.last_review_time = l] :
        f \in {0, 1}, ct \in CTypes, q \in {"New", "Review"}, d \in {-10000, 9},
        i \in {0, 2}, e \in {0, 1800}, m \in BOOLEAN, l \in {None, Some(90000)} }

InitCard ==
    /\ input = <<>>
    /\ parsed = None
    /\ card \in StoredCards
    /\ prev = None
    /\ nresched = 0
    /\ IdleCol
    /\ IdleHttp

Reschedule(today, next_day_start, days, ease, force_reset) ==
    /\ nresched < MaxResched
    /\ card' = CardSetDueDate(card, today, next_day_start, days, ease, force_reset)
    /\ prev' = Some([card |-> card, today |-> today, next_day_start |-> next_day_start,
                     days |-> days, ease |-> ease, force_reset |-> force_reset])
    /\ nresched' = nresched + 1
    /\ UNCHANGED <<parseVars, colVars, httpVars>>

NextCard ==
    \E today \in Todays, next_day_start \in NextDayStarts, days \in 0..MaxDays,
       ease \in Eases, force_reset \in BOOLEAN :
        Reschedule(today, next_day_start, days, ease, force_reset)

SpecCard == InitCard /\ [][NextCard]_vars

(***************************************************************************)
(* SpecFsrs: Card::set_due_date applied to a card that has a memory state, *)
(* with dues stored as day numbers and as raw timestamps.                  *)
(***************************************************************************)
\* a next_day_at of the size of a real timestamp
EpochNextDayStart == 1000200000
FsrsNextDayStarts == {2 * SecsPerDay, EpochNextDayStart}

\* dues stored as raw timestamps: 3 days and 100 s after EpochNextDayStart,
\* and 1 day and 100 s before it
EpochDues == {EpochNextDayStart + 3 * SecsPerDay + 100,
              EpochNextDayStart - SecsPerDay - 100}

FsrsCards ==
    { [NewCard(1, IF od = 0 THEN 1 ELSE 3) EXCEPT
           !.original_deck_id = IF od = 0 THEN 0 ELSE 1,
           !.original_due = od,
           !.ctype = ct, !.queue = IF ct = "New" THEN "New" ELSE "Review",
           !.due = d, !.interval = i,
           !.ease_factor = e, !.memory_state = TRUE, !.last_review_time = l] :
        od \in {0, 7} \cup EpochDues, ct \in CTypes, d \in {-10000, 9} \cup EpochDues,
        i \in {0, 2}, e \in {0, 1800}, l \in {None, Some(90000)} }

InitFsrs ==
    /\ input = <<>>
    /\ parsed = None
    /\ card \in FsrsCards
    /\ prev = None
    /\ nresched = 0
    /\ IdleCol
    /\ IdleHttp

NextFsrs ==
    \E today \in Todays, next_day_start \in FsrsNextDayStarts, days \in 0..MaxDays,
       ease \in Eases, force_reset \in BOOLEAN :
        Reschedule(today, next_day_start, days, ease, force_reset)

SpecFsrs == InitFsrs /\ [][NextFsrs]_vars

(***************************************************************************)
(* Spec: Collection::set_due_date called on a collection, and the day      *)
(* rolling over between calls.                                             *)
(***************************************************************************)
\* MaxLoad: the calls of one behaviour plus the card ids they request (one
\* call with two ids, or a call with one id and a call with none, ...)
MaxLoad == 3
MaxTicks == 1

\* the `days` strings of the calls: 1, 2-1, 0! and x
DaysInputs ==
    { <<"1">>, <<"2", "-", "1">>, <<"0", "!">>, <<"x">> }

\* the StringKey of `context`
ContextKey == "SetDueDateDefault"

RequestLists == UNION {[1..n -> CardIds] : n \in 0..(MaxLoad - 1)}

\* what a call adds to load, and the lists a call may still pass
Cost(cids) == 1 + Len(cids)
RequestListsWithin(n) == {cids \in RequestLists : Cost(cids) <= n}

\* what all_cards_for_ids may return: the found cards, in ascending id order
\* (the order of the id-keyed card table)
Fetches(c, cids) ==
    LET found == FoundIds(c, cids)
        orders == {s \in [1..Cardinality(found) -> found] :
                      \A i, j \in 1..Cardinality(found) : i < j => s[i] < s[j]}
    IN  {[i \in 1..Cardinality(found) |-> Unwrap(c.cards[s[i]])] : s \in orders}

\* the draws of Uniform::new_inclusive(spec.min, spec.max), one per card,
\* when the loop of the body is reached
SampleVectors(cids, days, fetched) ==
    LET spec == parse_due_date_str(days)
    IN  IF spec.ok /\ Len(cids) > 0 /\ Len(fetched) = Len(cids)
        THEN [1..Len(fetched) -> Unwrap(spec.val).min..Unwrap(spec.val).max]
        ELSE {<<>>}

\* the points of a call after which the day may roll over: between the two
\* reads of timing_today(), before the first card, and after each card but
\* the last; 0 when it does not roll over, or the clock is not read at all
Rollovers(cids, days, fetched) ==
    IF /\ parse_due_date_str(days).ok
       /\ Len(cids) > 0
       /\ clock.today < FirstDay + MaxTicks
    THEN IF Len(fetched) = Len(cids) THEN 0..(1 + Len(fetched)) ELSE {0, 1}
    ELSE {0}

Init ==
    /\ input = <<>>
    /\ parsed = None
    /\ card = NewCard(1, 1)
    /\ prev = None
    /\ nresched = 0
    /\ col \in {EmptyCol(cards) : cards \in {f \in [CardIds -> UNION {CardChoices(id) : id \in CardIds}] :
                                               \A id \in CardIds : f[id] \in CardChoices(id)}}
    /\ clock = InitClock
    /\ result = None
    /\ call = None
    /\ load = 0
    /\ IdleHttp

SetDueDate(cids, days, context, fetched, samples, rollover) ==
    /\ \E out \in {CollectionSetDueDate(col, clock, cids, days, context, fetched,
                                         samples, rollover)} :
           /\ col' = out.col
           /\ result' = Some(out.result)
           /\ call' = Some([op |-> "SetDueDate",
                            cids |-> cids, days |-> days, context |-> context,
                            fetched |-> fetched, samples |-> samples,
                            rollover |-> rollover,
                            lookups |-> out.lookups, seen |-> out.seen,
                            before |-> col, clock |-> clock, undone |-> FALSE])
    /\ clock' = IF rollover = 0 THEN clock ELSE RolledOver(clock)
    /\ load' = load + Cost(cids)
    /\ UNCHANGED <<parseVars, cardVars, httpVars>>

\* the caller has taken the outcome of the call; the collection is idle again
Return ==
    /\ call # None
    /\ call' = None
    /\ result' = None
    /\ UNCHANGED <<col, clock, load, parseVars, cardVars, httpVars>>

\* the caller undoes the latest operation while it holds the outcome of its
\* call
Undo ==
    /\ call # None
    /\ ~Unwrap(call).undone
    /\ Len(col.undo) > 0
    /\ col' = UndoStep(col)
    /\ call' = Some([Unwrap(call) EXCEPT !.undone = TRUE])
    /\ UNCHANGED <<clock, result, load, parseVars, cardVars, httpVars>>

\* the day rolls over (timing_today() of a later call reads the new day)
Tick ==
    /\ call = None
    /\ clock.today < FirstDay + MaxTicks
    /\ clock' = RolledOver(clock)
    /\ UNCHANGED <<col, result, call, load, parseVars, cardVars, httpVars>>

\* a caller invokes set_due_date on the idle collection
Call ==
    /\ call = None
    /\ load < MaxLoad
    /\ \E cids \in RequestListsWithin(MaxLoad - load),
          days \in DaysInputs, context \in {None, Some(ContextKey)} :
         \E fetched \in Fetches(col, cids) :
           \E samples \in SampleVectors(cids, days, fetched) :
             \E rollover \in Rollovers(cids, days, fetched) :
               SetDueDate(cids, days, context, fetched, samples, rollover)

Next ==
    \/ Call
    \/ Return
    \/ Tick
    \/ Undo

Spec == Init /\ [][Next]_vars

(***************************************************************************)
(* SpecGrade: Collection::grade_now called on a collection.                *)
(***************************************************************************)
\* the i32 ratings of the calls: the four answers and a value on each side
Ratings == (0 - 1)..4

GradeNow(cids, rating) ==
    /\ \E out \in {CollectionGradeNow(col, clock, cids, rating)} :
           /\ col' = out.col
           /\ result' = Some(out.result)
           /\ call' = Some([op |-> "GradeNow", cids |-> cids, rating |-> rating,
                            answered |-> out.answered,
                            before |-> col, clock |-> clock, undone |-> FALSE])
    /\ load' = load + Cost(cids)
    /\ UNCHANGED <<clock, parseVars, cardVars, httpVars>>

GradeCall ==
    /\ call = None
    /\ load < MaxLoad
    /\ \E cids \in RequestListsWithin(MaxLoad - load), rating \in Ratings :
          GradeNow(cids, rating)

NextGrade ==
    \/ GradeCall
    \/ Return

SpecGrade == Init /\ [][NextGrade]_vars

(***************************************************************************)
(* SpecHttp: the HTTP adapters turning an error into a Response            *)
(* (sync/http_server/error.rs, sync/http_server/rest.rs).                  *)
(***************************************************************************)
\* the variants of enum AnkiError (error/mod.rs:39-126)
AnkiErrorKinds ==
    {"InvalidInput", "TemplateError", "CardTypeError", "FileIoError", "DbError",
     "NetworkError", "SyncError", "JsonError", "ProtoError", "ParseNumError",
     "Interrupted", "CollectionNotOpen", "CollectionAlreadyOpen", "NotFound",
     "Deleted", "Existing", "FilteredDeckError", "SearchError", "InvalidRegex",
     "UndoEmpty", "MultipleNotetypesSelected", "DatabaseCheckRequired",
     "MediaCheckRequired", "CustomStudyError", "ImportError", "InvalidId",
     "WindowsError", "InvalidMethodIndex", "InvalidServiceIndex",
     "FsrsParamsInvalid", "FsrsInsufficientData", "FsrsInsufficientReviews",
     "FsrsUnableToDetermineDesiredRetention", "SchedulerUpgradeRequired",
     "InvalidCertificateFormat"}

\* http::StatusCode
BAD_REQUEST == 400
NOT_FOUND == 404
CONFLICT == 409
INTERNAL_SERVER_ERROR == 500

\* mutant: invalid input is not told apart from the other kinds.
ApiErrorIntoResponse_invalid_input_as_500(e) ==
    IF e.variant = "Anki"
    THEN LET status == IF e.kind = "NotFound" THEN NOT_FOUND
                       ELSE IF e.kind = "Existing" THEN CONFLICT
                       ELSE INTERNAL_SERVER_ERROR
         IN  [status |-> status, body |-> [code |-> status, message |-> "message"]]
    ELSE IF e.variant = "Json"
    THEN [status |-> BAD_REQUEST, body |-> [code |-> BAD_REQUEST, message |-> "body_text"]]
    ELSE [status |-> e.code, body |-> [code |-> e.code, message |-> "context"]]

\* <ApiError as IntoResponse>::into_response (error.rs:26-47)
ApiErrorIntoResponse(e) ==
    IF e.variant = "Anki"
    THEN LET status == IF e.kind = "NotFound" THEN NOT_FOUND
                       ELSE IF e.kind = "InvalidInput" THEN BAD_REQUEST
                       ELSE IF e.kind = "Existing" THEN CONFLICT
                       ELSE INTERNAL_SERVER_ERROR
         IN  [status |-> status, body |-> [code |-> status, message |-> "message"]]
    ELSE IF e.variant = "Json"
    THEN [status |-> BAD_REQUEST, body |-> [code |-> BAD_REQUEST, message |-> "body_text"]]
    ELSE [status |-> e.code, body |-> [code |-> e.code, message |-> "context"]]

\* <RestError as IntoResponse>::into_response (rest.rs:61-69): the body is
\* the localized message, or the Display text for the kinds without a status
\* of their own
RestErrorIntoResponse(e) ==
    IF e.kind = "NotFound" THEN [status |-> NOT_FOUND, body |-> "message"]
    ELSE IF e.kind = "InvalidInput" THEN [status |-> BAD_REQUEST, body |-> "message"]
    ELSE IF e.kind = "Existing" THEN [status |-> CONFLICT, body |-> "message"]
    ELSE [status |-> INTERNAL_SERVER_ERROR, body |-> "to_string"]

\* the status codes an HttpError is given in the model
HttpErrorCodes == {BAD_REQUEST, INTERNAL_SERVER_ERROR}

\* the error values the adapters are handed
Failures ==
    {[adapter |-> a, variant |-> "Anki", kind |-> k, code |-> 0] :
        a \in {"ApiError", "RestError"}, k \in AnkiErrorKinds}
    \cup {[adapter |-> "ApiError", variant |-> "Json", kind |-> "", code |-> 0]}
    \cup {[adapter |-> "ApiError", variant |-> "Http", kind |-> "", code |-> c] :
              c \in HttpErrorCodes}

InitHttp ==
    /\ input = <<>>
    /\ parsed = None
    /\ card = NewCard(1, 1)
    /\ prev = None
    /\ nresched = 0
    /\ IdleCol
    /\ failure \in Failures
    /\ response = None

IntoResponse ==
    /\ response = None
    /\ response' = Some(IF failure.adapter = "ApiError"
                        THEN ApiErrorIntoResponse(failure)
                        ELSE RestErrorIntoResponse(failure))
    /\ UNCHANGED <<failure, parseVars, cardVars, colVars>>

NextHttp == IntoResponse

SpecHttp == InitHttp /\ [][NextHttp]_vars

(***************************************************************************)
(* Properties of Card::set_due_date (SpecCard).                            *)
(* p is the latest reschedule: the card before it and its arguments.       *)
(***************************************************************************)
Rescheduled == IsSome(prev)
P == Unwrap(prev)

\* round(ease * 1000) for an ease given in units of 1/10000
RoundedEase(ease) == (ease + 5) \div 10

\* C4: across any sequence of reschedules, a step never changes an
\* ease_factor that is non-zero, and an ease_factor that changes was zero and
\* becomes the rounded supplied ease.
C4_EaseNeverOverwritten ==
    [][ /\ (card.ease_factor # 0 => card'.ease_factor = card.ease_factor)
        /\ (card'.ease_factor # card.ease_factor =>
               /\ card.ease_factor = 0
               /\ IsSome(prev')
               /\ card'.ease_factor = RoundedEase(Unwrap(prev').ease)) ]_vars

\* a second reschedule met a set ease factor and supplied a different one
C4_Witness ==
    /\ Rescheduled
    /\ nresched = 2
    /\ P.card.ease_factor # 0
    /\ RoundedEase(P.ease) # P.card.ease_factor
    /\ card.ease_factor = P.card.ease_factor

C5_Case ==
    /\ Rescheduled
    /\ ~P.card.memory_state
    /\ P.card.ctype \in {"Review", "Relearn"}
    /\ ~P.force_reset

C6_IntervalReset ==
    ( /\ Rescheduled
      /\ ~P.card.memory_state
      /\ (P.force_reset \/ P.card.ctype \notin {"Review", "Relearn"}) )
    => card.interval = Max(1, P.days)

\* a forced reset replaced the interval of a review card
C6_Witness ==
    /\ Rescheduled
    /\ ~P.card.memory_state
    /\ P.force_reset
    /\ P.card.ctype = "Review"
    /\ P.card.interval = 2
    /\ P.days = 3
    /\ card.interval = 3

\* C7: rescheduling a card parked in a filtered deck leaves
\* original_deck_id = 0 and original_due = 0, and its due is
\* today + daysFromToday, the due the same card would get were it not parked.
C7_FilteredCardRescheduled ==
    (Rescheduled /\ P.card.original_deck_id # 0) =>
        /\ card.original_deck_id = 0
        /\ card.original_due = 0
        /\ card.due = P.today + P.days
        /\ card.due =
             CardSetDueDate([P.card EXCEPT !.original_deck_id = 0, !.original_due = 0],
                            P.today, P.next_day_start, P.days, P.ease,
                            P.force_reset).due

\* a parked card whose backed-up due differs from the new due was rescheduled
C7_Witness ==
    /\ Rescheduled
    /\ P.card.original_deck_id # 0
    /\ P.card.original_due # P.today + P.days
    /\ P.card.due # P.today + P.days
    /\ card.original_deck_id = 0

\* C8: rescheduling a card whose ease_factor is 0, whatever its type and
\* queue, leaves type = review, queue = review and
\* ease_factor = round(suppliedEase * 1000).
C8_NewCardConverted ==
    (Rescheduled /\ P.card.ease_factor = 0) =>
        /\ card.ctype = "Review"
        /\ card.queue = "Review"
        /\ card.ease_factor = RoundedEase(P.ease)

\* a new card in the new queue was converted, with an ease that rounds up
C8_Witness ==
    /\ Rescheduled
    /\ P.card.ease_factor = 0
    /\ P.card.ctype = "New"
    /\ P.card.queue = "New"
    /\ P.ease = 24996
    /\ card.ease_factor = 2500
    /\ card.queue = "Review"

(***************************************************************************)
(* Properties of parse_due_date_str (SpecParse).                           *)
(***************************************************************************)
Parsed == IsSome(parsed)
R == Unwrap(parsed)

\* the text is <a>-<b> or <a>-<b>! with a and b in u32 range
IsRangeInput(s) ==
    LET c == RECaptures(s)
    IN  /\ IsSome(c)
        /\ IsSome(Unwrap(c).max)
        /\ ParseU32(Unwrap(c).min).ok
        /\ ParseU32(Unwrap(Unwrap(c).max)).ok

\* the text is <n> or <n>! with n in u32 range
IsSingleInput(s) ==
    LET c == RECaptures(s)
    IN  /\ IsSome(c)
        /\ ~IsSome(Unwrap(c).max)
        /\ ParseU32(Unwrap(c).min).ok

NumA(s) == Unwrap(ParseU32(Unwrap(RECaptures(s)).min).val)
NumB(s) == Unwrap(ParseU32(Unwrap(Unwrap(RECaptures(s)).max)).val)

\* C9: every successful parse has min <= max; "<a>-<b>" gives
\* min = min(a,b), max = max(a,b) in either order, and "<n>" gives
\* min = max = n.
C9_MinMaxNormalized ==
    (Parsed /\ R.ok) =>
        LET spec == Unwrap(R.val)
        IN  /\ spec.min <= spec.max
            /\ IsRangeInput(input) \/ IsSingleInput(input)
            /\ IsRangeInput(input) =>
                   /\ spec.min = Min(NumA(input), NumB(input))
                   /\ spec.max = Max(NumA(input), NumB(input))
            /\ IsSingleInput(input) =>
                   /\ spec.min = NumA(input)
                   /\ spec.max = NumA(input)

\* a range written in reversed order was parsed
C9_Witness ==
    /\ Parsed
    /\ R.ok
    /\ IsRangeInput(input)
    /\ NumA(input) > NumB(input)
    /\ Unwrap(R.val).min = NumB(input)

IsEmptyInput(s) == s = <<>>

\* some character is neither a digit, nor the hyphen, nor the bang
IsNonNumericInput(s) ==
    \E i \in 1..Len(s) : ~IsRegexDigit(s[i]) /\ s[i] \notin {"-", "!"}

\* a hyphen followed by ASCII digits only, such as -5
IsBareNegativeInput(s) ==
    /\ Len(s) >= 2
    /\ s[1] = "-"
    /\ \A i \in 2..Len(s) : IsAsciiDigit(s[i])

AllAsciiDigits(ds) == \A i \in 1..Len(ds) : IsAsciiDigit(ds[i])

\* the text matches the grammar and one of its numbers is above u32::MAX
IsOverflowInput(s) ==
    LET c == RECaptures(s)
    IN  /\ IsSome(c)
        /\ \/ AllAsciiDigits(Unwrap(c).min) /\ OverflowsU32(Unwrap(c).min)
           \/ /\ IsSome(Unwrap(c).max)
              /\ AllAsciiDigits(Unwrap(Unwrap(c).max))
              /\ OverflowsU32(Unwrap(Unwrap(c).max))

C10_OverflowReached ==
    /\ Parsed
    /\ IsOverflowInput(input)
    /\ ~R.ok

(***************************************************************************)
(* Properties of Collection::set_due_date (Spec).                          *)
(* K is the latest call (arguments, draws, the store before it), Res its   *)
(* outcome.                                                                *)
(***************************************************************************)
Called == IsSome(call) /\ IsSome(result) /\ Unwrap(call).op = "SetDueDate"
K == Unwrap(call)
Res == Unwrap(result)

\* the call got past the parser and the empty-list return: the transaction
\* body ran, and the store is as the call left it (nothing was undone since)
BodyRan == Called /\ ~K.undone /\ parse_due_date_str(K.days).ok /\ Len(K.cids) > 0

\* the body returned an error (a Result::Err, not a panic)
BodyFailed == BodyRan /\ ~Res.ok /\ Unwrap(Res.err).kind # "Panic"

AbsentBefore(id) == ~IsSome(K.before.cards[id])

EffectiveDeck(c) == IF c.original_deck_id # 0 THEN c.original_deck_id ELSE c.deck_id
DeckMissing(c) == ~IsSome(K.before.decks[EffectiveDeck(c)])
HomeDeckFiltered(c) ==
    /\ IsSome(K.before.decks[EffectiveDeck(c)])
    /\ Unwrap(K.before.decks[EffectiveDeck(c)]).filtered
ConfigMissing(c) ==
    /\ IsSome(K.before.decks[EffectiveDeck(c)])
    /\ ~Unwrap(K.before.decks[EffectiveDeck(c)]).filtered
    /\ ~IsSome(K.before.deck_config[Unwrap(K.before.decks[EffectiveDeck(c)]).config_id])

Batch == {K.fetched[i] : i \in 1..Len(K.fetched)}

\* as many cards were fetched as ids were requested: the loop over the
\* cards is entered
LoopReached == BodyRan /\ Len(K.fetched) = Len(K.cids)

\* C1: when the body of a set_due_date call over a non-empty list returns an
\* error, the store after the call is the store before it: no card, no
\* manual-reschedule entry, no config string and no undo step of the body
\* is visible.
C1_FailedCallLeavesStore ==
    BodyFailed =>
        /\ col.cards = K.before.cards
        /\ col.revlog = K.before.revlog
        /\ col.config = K.before.config
        /\ col.undo = K.before.undo
        /\ col = K.before

\* the deck lookup of the second card failed after the first card, whose
\* deck and configuration exist, had been processed, in a call that names a
\* config key
C1_Witness ==
    /\ BodyFailed
    /\ Len(K.fetched) >= 2
    /\ ~DeckMissing(K.fetched[1])
    /\ ~HomeDeckFiltered(K.fetched[1])
    /\ DeckMissing(K.fetched[2])
    /\ Unwrap(Res.err).type_name = "deck"
    /\ IsSome(K.context)
    /\ col = K.before

\* C2: a call naming at least one id that is absent from the store fails
\* with NotFound of type "card" whose identifier is the first absent id in
\* request order, and no card of the store is changed.
C2_FirstMissingCardReported ==
    (BodyRan /\ \E i \in 1..Len(K.cids) : AbsentBefore(K.cids[i])) =>
        /\ ~Res.ok
        /\ Res.val = None
        /\ Unwrap(Res.err).kind = "NotFound"
        /\ Unwrap(Res.err).type_name = "card"
        /\ \E i \in 1..Len(K.cids) :
              /\ AbsentBefore(K.cids[i])
              /\ \A j \in 1..(i - 1) : ~AbsentBefore(K.cids[j])
              /\ ErrorContext(Unwrap(Res.err)) = IdToString(K.cids[i])
        /\ \A id \in CardIds : col.cards[id] = K.before.cards[id]

\* ids 3 and 2, both absent, were requested in this order, and 3 was reported
C2_Witness ==
    /\ BodyRan
    /\ K.cids = <<3, 2>>
    /\ AbsentBefore(3)
    /\ AbsentBefore(2)
    /\ ~Res.ok
    /\ ErrorContext(Unwrap(Res.err)) = <<"3">>

\* C3 as stated: when the effective deck of a card of the batch does not
\* exist, or the configuration of that deck does not exist, the batch fails
\* with a not-found error and nothing is rescheduled.
C3_NoSilentFallback ==
    ( /\ LoopReached
      /\ \A c \in Batch : ~HomeDeckFiltered(c)
      /\ \E c \in Batch : DeckMissing(c) \/ ConfigMissing(c) )
    => /\ ~Res.ok
       /\ Unwrap(Res.err).kind = "NotFound"
       /\ col = K.before

\* C3 amended, for every call that reaches the card loop: a card whose
\* effective deck does not exist fails the batch and nothing is rescheduled
\* (the error is not-found when no home deck of the batch is filtered); a
\* deck configuration that does not exist fails
\* nothing: when every effective deck exists and none is filtered the call
\* succeeds, and a card whose deck configuration is missing is rescheduled
\* as a review card with the initial ease of the configuration that
\* get_deck_config(config_id, true) falls back to.
C3_MissingDeckFailsMissingConfigDefaults ==
    LoopReached =>
        /\ (\E c \in Batch : DeckMissing(c)) =>
               /\ ~Res.ok
               /\ Unwrap(Res.err).kind \in {"NotFound", "InvalidInput"}
               /\ (\A c \in Batch : ~HomeDeckFiltered(c)) =>
                      /\ Unwrap(Res.err).kind = "NotFound"
                      /\ Unwrap(Res.err).type_name = "deck"
               /\ col = K.before
        /\ (\A c \in Batch : ~DeckMissing(c) /\ ~HomeDeckFiltered(c)) =>
               /\ Res.ok
               /\ \A i \in 1..Len(K.fetched) :
                      ConfigMissing(K.fetched[i]) =>
                          LET after == Unwrap(col.cards[K.fetched[i].id])
                          IN  /\ after.queue = "Review"
                              /\ after.ctype = "Review"
                              /\ after.due = K.clock.today + K.samples[i]
                              /\ after.ease_factor > 0

\* a call over a card whose deck has no stored configuration succeeded and
\* the card, whose ease_factor was 0, carries a fallback initial ease
C3_Witness ==
    /\ LoopReached
    /\ Res.ok
    /\ \E c \in Batch :
          /\ ConfigMissing(c)
          /\ c.ease_factor = 0
          /\ Unwrap(col.cards[c.id]).ease_factor > 0
          /\ Unwrap(col.cards[c.id]).queue = "Review"

\* a call over a card whose effective deck does not exist failed
C3_MissingDeckReached ==
    /\ LoopReached
    /\ \E c \in Batch : DeckMissing(c)
    /\ ~Res.ok
    /\ Unwrap(Res.err).type_name = "deck"

Graded == IsSome(call) /\ IsSome(result) /\ Unwrap(call).op = "GradeNow"
InvalidRating == K.rating \notin 0..3

\* C12 as stated: for every id list, a rating outside 0..3 makes grade_now
\* fail with invalid-input and leaves every card as it was.
C12_InvalidRatingAlwaysRejected ==
    (Graded /\ InvalidRating) =>
        /\ ~Res.ok
        /\ Unwrap(Res.err).kind = "InvalidInput"
        /\ col.cards = K.before.cards

\* C12 amended: with a rating outside 0..3 no card is ever answered and every
\* card stays as it was; the rating is looked at inside the loop, after the
\* scheduling states of the card were fetched: the call fails with
\* invalid-input ("invalid rating") and an unchanged store when the first id
\* names a stored card, fails with the not-found error of the first id when
\* that card is not stored, and succeeds when the id list is empty.
C12_InvalidRatingRejectedAtFirstCard ==
    (Graded /\ InvalidRating) =>
        /\ K.answered = <<>>
        /\ col.cards = K.before.cards
        /\ col.revlog = K.before.revlog
        /\ (Len(K.cids) = 0) => Res.ok
        /\ (Len(K.cids) > 0 /\ IsSome(K.before.cards[K.cids[1]])) =>
               /\ ~Res.ok
               /\ Unwrap(Res.err).kind = "InvalidInput"
               /\ ErrorContext(Unwrap(Res.err)) = "invalid rating"
               /\ col = K.before
        /\ (Len(K.cids) > 0 /\ ~IsSome(K.before.cards[K.cids[1]])) =>
               /\ ~Res.ok
               /\ Unwrap(Res.err).kind = "NotFound"
               /\ ErrorContext(Unwrap(Res.err)) = IdToString(K.cids[1])
               /\ col = K.before

\* rating 4 was rejected for a list of two stored cards
C12_Witness ==
    /\ Graded
    /\ K.rating = 4
    /\ Len(K.cids) = 2
    /\ \A i \in 1..2 : IsSome(K.before.cards[K.cids[i]])
    /\ ~Res.ok
    /\ Unwrap(Res.err).kind = "InvalidInput"
    /\ col = K.before

\* rating -1 with the empty list: the call returned Ok
C12_EmptyListReached ==
    /\ Graded
    /\ K.rating < 0
    /\ K.cids = <<>>
    /\ Res.ok

\* a valid rating answered both cards of a list
C12_AnsweredReached ==
    /\ Graded
    /\ K.rating \in 0..3
    /\ Len(K.answered) = 2
    /\ Res.ok

(***************************************************************************)
(* Undo of Collection::set_due_date (Spec).                                *)
(***************************************************************************)
Succeeded == Called /\ Res.ok /\ Len(K.cids) > 0

\* C13: a successful call over a non-empty list leaves exactly one new undo
\* step, labelled SetDueDate, that holds the pre-image of every card of the
\* batch (the card as it was before the call); undoing that one step gives
\* every card of the store the state it had before the call.
C13_SingleUndoRestoresBatch ==
    /\ (Succeeded /\ ~K.undone) =>
           /\ Len(col.undo) = Len(K.before.undo) + 1
           /\ col.undo[Len(col.undo)].op = "SetDueDate"
           /\ col.undo[Len(col.undo)].changes = K.fetched
           /\ \A i \in 1..Len(K.fetched) :
                  K.fetched[i] = Unwrap(K.before.cards[K.fetched[i].id])
    /\ (Succeeded /\ K.undone) =>
           /\ col.cards = K.before.cards
           /\ col.undo = K.before.undo

\* two cards were rescheduled by one call, both differ from their pre-image,
\* and one undo step has been taken
C13_Witness ==
    /\ Succeeded
    /\ K.undone
    /\ Len(K.fetched) = 2
    /\ \A i \in 1..2 :
          /\ K.seen[i].cid = K.fetched[i].id
          /\ CardSetDueDate(K.fetched[i], K.seen[i].today, K.seen[i].next_day_start,
                            K.seen[i].days_from_today, K.seen[i].ease_factor,
                            Unwrap(parse_due_date_str(K.days).val).force_reset)
                 # K.fetched[i]
    /\ col.cards = K.before.cards

(***************************************************************************)
(* Properties of the HTTP adapters (SpecHttp).                             *)
(***************************************************************************)
CoreErrorResponded == IsSome(response) /\ failure.variant = "Anki"
Status == Unwrap(response).status

\* C14 as stated: NotFound gives 404, InvalidInput gives 400 and every other
\* AnkiError kind gives 500.
C14_EveryOtherKindIs500 ==
    CoreErrorResponded =>
        Status = IF failure.kind = "NotFound" THEN NOT_FOUND
                 ELSE IF failure.kind = "InvalidInput" THEN BAD_REQUEST
                 ELSE INTERNAL_SERVER_ERROR

\* C14 amended: in both adapters NotFound gives 404, InvalidInput gives 400,
\* Existing gives 409 (conflict) and every other AnkiError kind gives 500.
C14_StatusOfCoreError ==
    CoreErrorResponded =>
        /\ (failure.kind = "NotFound") => Status = NOT_FOUND
        /\ (failure.kind = "InvalidInput") => Status = BAD_REQUEST
        /\ (failure.kind = "Existing") => Status = CONFLICT
        /\ (failure.kind \notin {"NotFound", "InvalidInput", "Existing"}) =>
               Status = INTERNAL_SERVER_ERROR

\* the API adapter answered an invalid-input error with 400
C14_Witness ==
    /\ CoreErrorResponded
    /\ failure.adapter = "ApiError"
    /\ failure.kind = "InvalidInput"
    /\ Status = BAD_REQUEST

\* the REST adapter answered an Existing error with 409
C14_ConflictReached ==
    /\ CoreErrorResponded
    /\ failure.adapter = "RestError"
    /\ failure.kind = "Existing"
    /\ Status = CONFLICT

(***************************************************************************)
(* The day and the offsets of one Collection::set_due_date call (Spec).    *)
(***************************************************************************)
\* C15: whenever the day rolls over during a call, every card of the batch
\* is rescheduled with one and the same pair (today, next_day_start): the
\* two values read before the loop; a card the call rescheduled is due on
\* that today plus its offset.
C15_OneSnapshotPerCall ==
    LoopReached =>
        /\ \A i \in 1..Len(K.seen) :
               /\ K.seen[i].today = ClockAt(K.clock, K.rollover, 1).today
               /\ K.seen[i].next_day_start = ClockAt(K.clock, K.rollover, 2).next_day_start
               /\ K.seen[i].today = K.seen[1].today
               /\ K.seen[i].next_day_start = K.seen[1].next_day_start
        /\ (Res.ok /\ ~K.undone) =>
               /\ Len(K.seen) = Len(K.fetched)
               /\ \A i \in 1..Len(K.fetched) :
                      Unwrap(col.cards[K.fetched[i].id]).due =
                          K.clock.today + K.seen[i].days_from_today

\* the day rolled over between the first and the second card of a call that
\* rescheduled both
C15_Witness ==
    /\ LoopReached
    /\ Res.ok
    /\ Len(K.seen) = 2
    /\ K.rollover = 3
    /\ clock = RolledOver(K.clock)
    /\ K.seen[2].today = K.clock.today

\* the day rolled over between the two reads of timing_today()
C15_RolloverBetweenReads ==
    /\ LoopReached
    /\ Res.ok
    /\ K.rollover = 1
    /\ K.seen[1].today = K.clock.today
    /\ K.seen[1].next_day_start = K.clock.next_day_start + SecsPerDay

\* C16: in one call get_deck is asked at most once for each effective deck
\* id (original_deck_id when it is set, else deck_id); every card that was
\* rescheduled had its effective deck looked up in this very call (the cache
\* starts empty), and two cards of one effective deck are given the same
\* initial ease.
C16_OneLookupPerDeck ==
    LoopReached =>
        /\ \A i, j \in 1..Len(K.lookups) : i # j => K.lookups[i] # K.lookups[j]
        /\ \A i \in 1..Len(K.lookups) : \E c \in Batch : K.lookups[i] = EffectiveDeck(c)
        /\ Len(K.fetched) > 0 => K.lookups[1] = EffectiveDeck(K.fetched[1])
        /\ \A i \in 1..Len(K.seen) :
               /\ K.seen[i].deck_id = EffectiveDeck(K.fetched[i])
               /\ \E k \in 1..Len(K.lookups) : K.lookups[k] = K.seen[i].deck_id
               /\ \A j \in 1..Len(K.seen) :
                      K.seen[j].deck_id = K.seen[i].deck_id =>
                          K.seen[j].ease_factor = K.seen[i].ease_factor

\* a card parked in the filtered deck with home deck 5 and a card of deck 5
\* were rescheduled by one call after a single lookup of deck 5
C16_Witness ==
    /\ LoopReached
    /\ Res.ok
    /\ Len(K.fetched) = 2
    /\ K.fetched[1].original_deck_id = 5
    /\ K.fetched[1].deck_id = 3
    /\ K.fetched[2].original_deck_id = 0
    /\ K.fetched[2].deck_id = 5
    /\ K.lookups = <<5>>
    /\ Len(K.seen) = 2
    /\ K.seen[1].ease_factor = K.seen[2].ease_factor

\* two cards of different decks took two lookups
C16_TwoDecksReached ==
    /\ LoopReached
    /\ Res.ok
    /\ Len(K.lookups) = 2

Range == Unwrap(parse_due_date_str(K.days).val)

\* C17: after a successful call with the range [min, max] the i-th card of
\* the batch is due on today + d, where d is the i-th draw and
\* min <= d <= max, and its interval is the one Card::set_due_date computes
\* from that same d.
C17_DuePerCardOffset ==
    (LoopReached /\ Res.ok /\ ~K.undone) =>
        \A i \in 1..Len(K.fetched) :
            LET d == K.samples[i]
                after == Unwrap(col.cards[K.fetched[i].id])
            IN  /\ Range.min <= d
                /\ d <= Range.max
                /\ K.seen[i].days_from_today = d
                /\ after.due = K.clock.today + d
                /\ after.interval =
                       NewInterval(K.fetched[i], K.seen[i].today, K.seen[i].next_day_start,
                                   d, Range.force_reset)

\* one call with the range 1..2 gave two new cards different offsets: the
\* first is due tomorrow with interval 1, the second a day later with
\* interval 2
C17_Witness ==
    /\ LoopReached
    /\ Res.ok
    /\ ~K.undone
    /\ Range.min = 1
    /\ Range.max = 2
    /\ Len(K.fetched) = 2
    /\ K.fetched[1].ctype = "New"
    /\ K.fetched[2].ctype = "New"
    /\ Unwrap(col.cards[K.fetched[1].id]).due = K.clock.today + 1
    /\ Unwrap(col.cards[K.fetched[1].id]).interval = 1
    /\ Unwrap(col.cards[K.fetched[2].id]).due = K.clock.today + 2
    /\ Unwrap(col.cards[K.fetched[2].id]).interval = 2

(***************************************************************************)
(* Properties of Card::set_due_date on a card with a memory state          *)
(* (SpecFsrs).                                                             *)
(***************************************************************************)
C18_Case ==
    /\ Rescheduled
    /\ P.card.memory_state
    /\ ~IsSome(P.card.last_review_time)

\* the original-or-current due of the card before the reschedule, as a day
\* number
C18_StoredDue ==
    IF P.card.original_deck_id # 0 THEN P.card.original_due ELSE P.card.due

C18_ReferenceDue ==
    IF is_unix_epoch_timestamp(C18_StoredDue)
    THEN P.today + TruncDiv(C18_StoredDue - P.next_day_start, SecsPerDay)
    ELSE C18_StoredDue

C18_ClampReached ==
    /\ C18_Case
    /\ P.card.interval + ((P.today + P.days) - C18_ReferenceDue) < 0
    /\ card.interval = 0

\* C20: for a card that has a memory state, interval, due, ease_factor, type
\* and queue after a reschedule are the same whatever force_reset is and
\* whatever the type of the card was; with the other force_reset value the
\* whole card is the same.
C20_ForceResetAndTypeIgnored ==
    (Rescheduled /\ P.card.memory_state) =>
        /\ CardSetDueDate(P.card, P.today, P.next_day_start, P.days, P.ease,
                          ~P.force_reset) = card
        /\ \A fr \in BOOLEAN, ct \in CTypes :
              LET other == CardSetDueDate([P.card EXCEPT !.ctype = ct], P.today,
                                          P.next_day_start, P.days, P.ease, fr)
              IN  /\ other.interval = card.interval
                  /\ other.due = card.due
                  /\ other.ease_factor = card.ease_factor
                  /\ other.ctype = card.ctype
                  /\ other.queue = card.queue

\* a new card with a memory state was rescheduled with force_reset and its
\* interval is not the reset value max(1, days)
C20_Witness ==
    /\ Rescheduled
    /\ P.card.memory_state
    /\ P.force_reset
    /\ P.card.ctype = "New"
    /\ card.interval # Max(P.days, 1)
    /\ card.ctype = "Review"

(***************************************************************************)
(* The missing-id search of Collection::set_due_date (Spec).               *)
(***************************************************************************)
FetchedIds == {K.fetched[i].id : i \in 1..Len(K.fetched)}

\* C19: whenever the number of fetched cards differs from the number of
\* requested ids, some requested id is absent from the fetched set and the
\* call ends with a NotFound error, never with a failed unwrap; also for a
\* request list that names an existing card more than once.
C19_MismatchIsAlwaysNotFound ==
    (BodyRan /\ Len(K.fetched) # Len(K.cids)) =>
        /\ \E i \in 1..Len(K.cids) : K.cids[i] \notin FetchedIds
        /\ ~Res.ok
        /\ Unwrap(Res.err).kind = "NotFound"

\* the request list <<1, 1>> names the stored card 1 twice: one card is
\* fetched for two ids, no requested id is absent, and the unwrap of the
\* search result fails
C19_PanicReached ==
    /\ BodyRan
    /\ K.cids = <<1, 1>>
    /\ Len(K.fetched) = 1
    /\ \A i \in 1..Len(K.cids) : K.cids[i] \in FetchedIds
    /\ ~Res.ok
    /\ Unwrap(Res.err) = Panicked
    /\ col = K.before

====
